---- MODULE Spec2Model ----
(***************************************************************************)
(* Model of scripts/transform_backup.py: a one-pass line filter that drops *)
(* the COPY data blocks of the tables in TABLES_TO_SKIP from a PostgreSQL  *)
(* dump and writes the rest to transformed_<name> next to the input.       *)
(*                                                                         *)
(* A text line is a sequence of atoms.  The atoms " ", "\t" and "\n" are   *)
(* the whitespace characters; every other atom is a run of non-whitespace  *)
(* characters ("COPY", a table name, "\\.", ...).  A file is the sequence  *)
(* of lines that iterating over it yields (line 27), each with its         *)
(* terminator, and a write appends one line (lines 36 and 57).             *)
(***************************************************************************)
EXTENDS Naturals, Sequences, FiniteSets, TLC

VARIABLES fs, pc, input_file, output_file, pos, skipping, lines_skipped,
          tables_processed, status, exit_status

vars == <<fs, pc, input_file, output_file, pos, skipping, lines_skipped,
          tables_processed, status, exit_status>>

(* ------------------------------ bounds --------------------------------- *)

\* Longest input file, in lines.
MaxLines == 3

\* How many times a file may be fed back to the program (the number of
\* "transformed_" prefixes an input name may carry).
MaxDepth == 2

(* ------------------------------ strings -------------------------------- *)

Whitespace == {" ", "\t", "\n"}

TABLES_TO_SKIP == {<<"neon_auth.users_sync">>, <<"public._prisma_migrations">>}

RECURSIVE lstrip(_)
lstrip(s) == IF s # <<>> /\ Head(s) \in Whitespace THEN lstrip(Tail(s)) ELSE s

RECURSIVE rstrip(_)
rstrip(s) ==
    IF s # <<>> /\ s[Len(s)] \in Whitespace
    THEN rstrip(SubSeq(s, 1, Len(s) - 1))
    ELSE s

\* str.strip()
strip(s) == rstrip(lstrip(s))

\* line.strip() == '\\.'
IsEndMarker(line) == strip(line) = <<"\\.">>

\* line.startswith('COPY ')
IsCopy(line) == Len(line) >= 2 /\ line[1] = "COPY" /\ line[2] = " "

\* str.split(sep): every occurrence of sep separates two parts, so two
\* adjacent separators enclose an empty part and no other character splits.
RECURSIVE split(_, _)
split(s, sep) ==
    IF \E i \in 1..Len(s) : s[i] = sep
    THEN LET i == CHOOSE k \in 1..Len(s) :
                      s[k] = sep /\ \A j \in 1..(k - 1) : s[j] # sep
         IN  <<SubSeq(s, 1, i - 1)>> \o split(SubSeq(s, i + 1, Len(s)), sep)
    ELSE <<s>>

\* parts = line.split(' ')
parts(line) == split(line, " ")

\* table_name = parts[1] (the second part; sequences here start at 1)
table_name(line) == parts(line)[2]

\* The COPY line names a table to skip: lines 40, 43 and 46.
IsSkippedTable(line) ==
    IsCopy(line) /\ Len(parts(line)) >= 2 /\ table_name(line) \in TABLES_TO_SKIP

(* ------------------------------- paths --------------------------------- *)

dirname(p) == p.dir
basename(p) == p.base
join(d, b) == [dir |-> d, base |-> b]

\* os.path.join(os.path.dirname(input_file), f"transformed_{base_name}")
OutputPath(p) == join(dirname(p), <<"transformed_">> \o basename(p))

\* The hardcoded default input of main.
DefaultPath == join("/Users/mwk/Development/ansari-project/maix2/db_backups",
                    <<"maix_backup_20250805_000025.sql">>)

BackupPath == join("db_backups", <<"backup.sql">>)
MissingPath == join("db_backups", <<"missing.sql">>)

\* A check that never fails.
existsAlways(p) == TRUE

\* os.path.exists
exists(p) == p \in DOMAIN fs

Depth(p) == Len(basename(p)) - 1

(* ------------------------------- inputs -------------------------------- *)

LineSet ==
    { <<"COPY", " ", "neon_auth.users_sync", " ", "(a)", "\n">>,
      <<"COPY", " ", "public._prisma_migrations", " ", "(a)", "\n">>,
      <<"COPY", " ", "public.orders", " ", "(a)", "\n">>,
      <<"COPY", " ", " ", "neon_auth.users_sync", " ", "(a)", "\n">>,
      <<"COPY", " ", "\t", "public._prisma_migrations", " ", "(a)", "\n">>,
      <<"COPY", " ", "neon_auth.users_sync", "\n">>,
      <<"COPY", " ", "\n">>,
      <<"\\.", "\n">>,
      <<" ", "\\.", "\n">>,
      <<"1", "\t", "\\.", "\n">> }

Inputs == UNION { [1..n -> LineSet] : n \in 0..MaxLines }

\* sys.argv[1:]: no argument, or one path.
Argvs == {<<>>} \cup { <<p>> : p \in {BackupPath, MissingPath} \cup DOMAIN fs }

(* ---------------------------- the program ------------------------------ *)

Init ==
    /\ fs \in { [p \in {BackupPath} |-> lines] : lines \in Inputs }
    /\ pc = "idle"
    /\ input_file = BackupPath
    /\ output_file = OutputPath(BackupPath)
    /\ pos = 0
    /\ skipping = FALSE
    /\ lines_skipped = 0
    /\ tables_processed = 0
    /\ status = <<>>
    /\ exit_status = 0

NotRunning == pc \in {"idle", "done", "exit1", "raised"}

f_in == fs[input_file]
f_out == fs[output_file]
AtLine == pc = "scan" /\ pos < Len(f_in)
line == f_in[pos + 1]

write(l) == [fs EXCEPT ![output_file] = Append(@, l)]
print(m) == Append(status, m)

ArgInput(argv) == IF Len(argv) > 0 THEN argv[1] ELSE DefaultPath

\* main, lines 65-73: the input does not exist.
MainNotFound ==
    /\ NotRunning
    /\ \E argv \in Argvs :
         /\ ~exists(ArgInput(argv))
         /\ input_file' = ArgInput(argv)
         /\ output_file' = OutputPath(ArgInput(argv))
    /\ status' = <<<<"Error: Input file not found", input_file'>>>>
    /\ exit_status' = 1
    /\ pc' = "exit1"
    /\ pos' = 0
    /\ skipping' = FALSE
    /\ lines_skipped' = 0
    /\ tables_processed' = 0
    /\ UNCHANGED fs

\* main, lines 65-83, and the head of transform_backup, lines 20-25: the
\* input is opened first, then the output is created or truncated.
MainTransform ==
    /\ NotRunning
    /\ \E argv \in Argvs :
         /\ exists(ArgInput(argv))
         /\ Depth(ArgInput(argv)) < MaxDepth
         /\ input_file' = ArgInput(argv)
         /\ output_file' = OutputPath(ArgInput(argv))
    /\ status' = <<<<"Transforming backup file", input_file'>>>>
    /\ IF input_file' \in DOMAIN fs
       THEN /\ fs' = [p \in DOMAIN fs \cup {output_file'} |->
                        IF p = output_file' THEN <<>> ELSE fs[p]]
            /\ pc' = "scan"
            /\ exit_status' = 0
       ELSE /\ fs' = fs
            /\ pc' = "raised"
            /\ exit_status' = 1
    /\ pos' = 0
    /\ skipping' = FALSE
    /\ lines_skipped' = 0
    /\ tables_processed' = 0

\* The end marker of a skipped block ends the skipping and is written.
EndMarkerSkippedWritten ==
    /\ AtLine
    /\ IsEndMarker(line)
    /\ skipping
    /\ skipping' = FALSE
    /\ lines_skipped' = lines_skipped + 1
    /\ status' = print(<<"  Skipped data block">>)
    /\ fs' = write(line)
    /\ pos' = pos + 1
    /\ UNCHANGED <<pc, input_file, output_file, tables_processed, exit_status>>

\* Lines 29-34: an end marker read while skipping.
EndMarkerSkipped ==
    /\ AtLine
    /\ IsEndMarker(line)
    /\ skipping
    /\ skipping' = FALSE
    /\ lines_skipped' = lines_skipped + 1
    /\ status' = print(<<"  Skipped data block">>)
    /\ pos' = pos + 1
    /\ UNCHANGED <<fs, pc, input_file, output_file, tables_processed, exit_status>>

\* Every end marker is dropped, also outside a skipped block.
EndMarkerDropped ==
    /\ AtLine
    /\ IsEndMarker(line)
    /\ ~skipping
    /\ pos' = pos + 1
    /\ UNCHANGED <<fs, pc, input_file, output_file, skipping, lines_skipped,
                   tables_processed, status, exit_status>>

\* Lines 29, 35-37: an end marker read while not skipping.
EndMarkerWritten ==
    /\ AtLine
    /\ IsEndMarker(line)
    /\ ~skipping
    /\ fs' = write(line)
    /\ pos' = pos + 1
    /\ UNCHANGED <<pc, input_file, output_file, skipping, lines_skipped,
                   tables_processed, status, exit_status>>

\* The COPY line of a skipped table is written and only its data is skipped.
CopySkippedWritten ==
    /\ AtLine
    /\ ~IsEndMarker(line)
    /\ IsSkippedTable(line)
    /\ status' = print(<<"Skipping table: ", table_name(line)>>)
    /\ skipping' = TRUE
    /\ lines_skipped' = lines_skipped + 1
    /\ fs' = write(line)
    /\ pos' = pos + 1
    /\ UNCHANGED <<pc, input_file, output_file, tables_processed, exit_status>>

\* Lines 40-50: a COPY line of a table to skip.
CopySkipped ==
    /\ AtLine
    /\ ~IsEndMarker(line)
    /\ IsSkippedTable(line)
    /\ status' = print(<<"Skipping table: ", table_name(line)>>)
    /\ skipping' = TRUE
    /\ lines_skipped' = lines_skipped + 1
    /\ pos' = pos + 1
    /\ UNCHANGED <<fs, pc, input_file, output_file, tables_processed, exit_status>>

\* The COPY line of an included table is written whatever the scan state.
CopyIncludedAlwaysWritten ==
    /\ AtLine
    /\ ~IsEndMarker(line)
    /\ IsCopy(line)
    /\ ~IsSkippedTable(line)
    /\ status' = print(<<"Including table: ", table_name(line)>>)
    /\ tables_processed' = tables_processed + 1
    /\ fs' = write(line)
    /\ pos' = pos + 1
    /\ UNCHANGED <<pc, input_file, output_file, skipping, lines_skipped, exit_status>>

\* The COPY line of an included table ends the skipping.
CopyIncludedResets ==
    /\ AtLine
    /\ ~IsEndMarker(line)
    /\ IsCopy(line)
    /\ ~IsSkippedTable(line)
    /\ status' = print(<<"Including table: ", table_name(line)>>)
    /\ tables_processed' = tables_processed + 1
    /\ skipping' = FALSE
    /\ fs' = write(line)
    /\ pos' = pos + 1
    /\ UNCHANGED <<pc, input_file, output_file, lines_skipped, exit_status>>

\* A COPY line whose table name is blank is not written.
CopyIncludedDropsNameless ==
    /\ AtLine
    /\ ~IsEndMarker(line)
    /\ IsCopy(line)
    /\ ~IsSkippedTable(line)
    /\ status' = print(<<"Including table: ", table_name(line)>>)
    /\ tables_processed' = tables_processed + 1
    /\ fs' = IF ~skipping /\ strip(table_name(line)) # <<>> THEN write(line) ELSE fs
    /\ pos' = pos + 1
    /\ UNCHANGED <<pc, input_file, output_file, skipping, lines_skipped, exit_status>>

\* Lines 40-45, 51-53 and 56-57: a COPY line of any other table.
CopyIncluded ==
    /\ AtLine
    /\ ~IsEndMarker(line)
    /\ IsCopy(line)
    /\ ~IsSkippedTable(line)
    /\ IF Len(parts(line)) >= 2
       THEN /\ status' = print(<<"Including table: ", table_name(line)>>)
            /\ tables_processed' = tables_processed + 1
       ELSE UNCHANGED <<status, tables_processed>>
    /\ fs' = IF ~skipping THEN write(line) ELSE fs
    /\ pos' = pos + 1
    /\ UNCHANGED <<pc, input_file, output_file, skipping, lines_skipped, exit_status>>

\* Every other line is written, also inside a skipped block.
OtherLineAlwaysWritten ==
    /\ AtLine
    /\ ~IsEndMarker(line)
    /\ ~IsCopy(line)
    /\ fs' = write(line)
    /\ pos' = pos + 1
    /\ UNCHANGED <<pc, input_file, output_file, skipping, lines_skipped,
                   tables_processed, status, exit_status>>

\* Lines 56-57: any other line.
OtherLine ==
    /\ AtLine
    /\ ~IsEndMarker(line)
    /\ ~IsCopy(line)
    /\ fs' = IF ~skipping THEN write(line) ELSE fs
    /\ pos' = pos + 1
    /\ UNCHANGED <<pc, input_file, output_file, skipping, lines_skipped,
                   tables_processed, status, exit_status>>

\* Lines 59-62: the summary, after the last line.
Summary ==
    /\ pc = "scan"
    /\ pos = Len(f_in)
    /\ status' = status \o << <<"Transformation complete:">>,
                              <<"  Tables processed: ", tables_processed>>,
                              <<"  Tables skipped: ", Cardinality(TABLES_TO_SKIP)>>,
                              <<"  Output written to: ", output_file>> >>
    /\ pc' = "done"
    /\ UNCHANGED <<fs, input_file, output_file, pos, skipping, lines_skipped,
                   tables_processed, exit_status>>

Next ==
    \/ MainNotFound
    \/ MainTransform
    \/ EndMarkerSkipped
    \/ EndMarkerWritten
    \/ CopySkipped
    \/ CopyIncluded
    \/ OtherLine
    \/ Summary

Spec == Init /\ [][Next]_vars

(* ------------------------- reading the outcome ------------------------- *)

Scanning == pc \in {"scan", "done"}

\* The lines of the input read so far, and how many of them satisfy P.
RECURSIVE Count(_, _, _)
Count(P(_), lines, n) ==
    IF n = 0 THEN 0
    ELSE Count(P, lines, n - 1) + (IF P(lines[n]) THEN 1 ELSE 0)

\* Line i lies in a removed block: some excluded block start at or before it
\* has no end marker between itself and line i.
InRemovedBlock(lines, i) ==
    \E j \in 1..i :
        /\ IsSkippedTable(lines[j])
        /\ \A k \in j..(i - 1) : ~IsEndMarker(lines[k])

\* The first n lines without the lines of removed blocks, in order.
RECURSIVE Remaining(_, _)
Remaining(lines, n) ==
    IF n = 0 THEN <<>>
    ELSE Remaining(lines, n - 1) \o
         (IF InRemovedBlock(lines, n) THEN <<>> ELSE <<lines[n]>>)

\* The whitespace-separated tokens of a line: the maximal runs of
\* non-whitespace atoms.
RECURSIVE Tokens(_)
Tokens(s) ==
    LET t == lstrip(s)
        n == IF \E i \in 1..Len(t) : t[i] \in Whitespace
             THEN (CHOOSE k \in 1..Len(t) :
                       t[k] \in Whitespace /\ \A j \in 1..(k - 1) : t[j] \notin Whitespace) - 1
             ELSE Len(t)
    IN  IF t = <<>> THEN <<>>
        ELSE <<SubSeq(t, 1, n)>> \o Tokens(SubSeq(t, n + 1, Len(t)))

\* The second whitespace-separated token of the line is an excluded table.
SecondTokenExcluded(l) == Len(Tokens(l)) >= 2 /\ Tokens(l)[2] \in TABLES_TO_SKIP

NoIdentifier(l) == IsCopy(l) /\ Len(Tokens(l)) < 2

IncludedCopy(l) == IsCopy(l) /\ ~IsSkippedTable(l)

Printed(m) == \E i \in 1..Len(status) : status[i] = m

(* ------------------------------- claims -------------------------------- *)

C2_SecondPassIsIdentity ==
    (Scanning /\ Depth(input_file) >= 1) =>
        /\ ~skipping
        /\ lines_skipped = 0
        /\ f_out = SubSeq(f_in, 1, pos)

C2_Witness ==
    /\ pc = "done"
    /\ input_file = OutputPath(BackupPath)
    /\ f_out = f_in
    /\ f_in # <<>>
    /\ Len(f_in) < Len(fs[BackupPath])

\* C3: an input without a COPY line of an excluded table is copied line for
\* line, and the pass never skips.
C3_NoExcludedTableIsIdentity ==
    (Scanning /\ \A i \in 1..Len(f_in) : ~IsSkippedTable(f_in[i])) =>
        /\ ~skipping
        /\ f_out = SubSeq(f_in, 1, pos)

C3_Witness ==
    /\ pc = "done"
    /\ input_file = BackupPath
    /\ \A i \in 1..Len(f_in) : ~IsSkippedTable(f_in[i])
    /\ \E i \in 1..Len(f_in) : IsEndMarker(f_in[i])
    /\ \E i \in 1..Len(f_in) : IsCopy(f_in[i])
    /\ f_out = f_in

\* C4: a run on a path that is no existing file ends with the error and exit
\* status 1 and creates no output file and reads no line; an output file
\* exists only for an input that exists.
C4_NotFoundBeforeAnyOutput ==
    /\ (pc # "idle" /\ input_file \notin DOMAIN fs) =>
          /\ pc = "exit1"
          /\ exit_status = 1
          /\ status = <<<<"Error: Input file not found", input_file>>>>
          /\ output_file \notin DOMAIN fs
          /\ pos = 0
    /\ Scanning => input_file \in DOMAIN fs
    /\ \A q \in DOMAIN fs :
          Depth(q) >= 1 => join(dirname(q), Tail(basename(q))) \in DOMAIN fs

C4_Witness ==
    /\ pc = "exit1"
    /\ input_file = MissingPath
    /\ OutputPath(BackupPath) \in DOMAIN fs
    /\ OutputPath(MissingPath) \notin DOMAIN fs

\* C5: an end marker is dropped exactly when it is read while skipping, and
\* then skipping ends; read while not skipping it is written unchanged and
\* the state stays non-skipping.
C5_EndMarker ==
    [][ (AtLine /\ IsEndMarker(line)) =>
          /\ ~skipping'
          /\ fs' = IF skipping THEN fs ELSE write(line) ]_vars

C5_Witness ==
    /\ Scanning
    /\ Printed(<<"  Skipped data block">>)
    /\ \E i \in 1..Len(f_out) : IsEndMarker(f_out[i])

\* C6 as stated: a COPY line of a non-excluded table is written in every scan
\* state, also while skipping.
C6_AlwaysEmitted ==
    [][ (AtLine /\ IsCopy(line) /\ ~SecondTokenExcluded(line) /\ Len(Tokens(line)) >= 2)
          => fs' = write(line) ]_vars

\* C6 amended: a COPY line of a non-excluded table is written when it is read
\* while not skipping and dropped when it is read while skipping.
C6_EmittedUnlessSkipping ==
    [][ (AtLine /\ IncludedCopy(line)) =>
          fs' = IF skipping THEN fs ELSE write(line) ]_vars

C6_Witness ==
    /\ pc = "done"
    /\ tables_processed = 2
    /\ Len(f_out) = 1
    /\ IncludedCopy(f_out[1])
    /\ \E i \in 1..Len(f_in) : IncludedCopy(f_in[i]) /\ InRemovedBlock(f_in, i)

\* C7: a COPY line makes the filter skip and is dropped if and only if its
\* second whitespace-separated token is an excluded table.
C7_SecondWhitespaceToken ==
    [][ (AtLine /\ ~skipping /\ IsCopy(line)) =>
          ((skipping' /\ fs' = fs) <=> SecondTokenExcluded(line)) ]_vars

\* C8: while skipping, a COPY line leaves the state skipping and is
\* suppressed; skipping ends only at an end marker and starts only at a COPY
\* line of an excluded table.
C8_ScanStateTransitions ==
    [][ AtLine =>
          /\ (skipping /\ IsCopy(line)) => (skipping' /\ fs' = fs)
          /\ (skipping /\ ~skipping') => IsEndMarker(line)
          /\ (skipping /\ ~IsEndMarker(line)) => (skipping' /\ fs' = fs)
          /\ (~skipping /\ skipping') => IsSkippedTable(line) ]_vars

C8_Witness ==
    /\ pc = "scan"
    /\ skipping
    /\ pos >= 3
    /\ IsSkippedTable(f_in[pos - 2])
    /\ IncludedCopy(f_in[pos - 1])
    /\ IsSkippedTable(f_in[pos])
    /\ f_out = <<>>

\* C9 as stated: a COPY line without a table identifier is written and
\* leaves the scan state as it is, in every scan state.
C9_NoIdentifierEmitted ==
    [][ (AtLine /\ NoIdentifier(line)) =>
          (fs' = write(line) /\ skipping' = skipping) ]_vars

\* C9 amended: a COPY line without a table identifier leaves the scan state
\* as it is; it is written when read while not skipping and dropped when
\* read while skipping.
C9_NoIdentifierKeepsState ==
    [][ (AtLine /\ NoIdentifier(line)) =>
          /\ skipping' = skipping
          /\ fs' = IF skipping THEN fs ELSE write(line) ]_vars

C9_Witness ==
    /\ Scanning
    /\ pos >= 3
    /\ NoIdentifier(f_in[1])
    /\ IsSkippedTable(f_in[2])
    /\ NoIdentifier(f_in[3])
    /\ skipping
    /\ f_out = <<f_in[1]>>

\* C10: the summary's tables skipped is the number of COPY lines of excluded
\* tables read, and its tables processed the number of COPY lines of other
\* tables read.
C10_SummaryCounts ==
    pc = "done" =>
        /\ Printed(<<"  Tables skipped: ", Count(IsSkippedTable, f_in, Len(f_in))>>)
        /\ Printed(<<"  Tables processed: ", Count(IncludedCopy, f_in, Len(f_in))>>)

====
